---- MODULE Spec2Model ----
(***************************************************************************)
(* A state-machine model of src-tauri/src/commands/thinking_fix.rs:        *)
(*   get_claude_projects   lists the project directories,                  *)
(*   find_latest_jsonl     picks the most recently modified .jsonl file,   *)
(*   fix_thinking_blocks   strips thinking blocks from that file, keeping  *)
(*                         a backup.                                       *)
(***************************************************************************)
EXTENDS Integers, Sequences, FiniteSets, TLC

VARIABLES
    fs,        \* the project directory: file name -> [exists, content, mtime]
    clock,     \* the wall clock, in ticks (one tick = one second of %Y%m%d_%H%M%S)
    calls,     \* history: one record per finished call of fix_thinking_blocks
    line,      \* SpecLine: the line handed to one iteration of the loop
    acc,       \* SpecLine: the loop's accumulators
    done,      \* SpecLine: the iteration has run
    root,      \* SpecList: the projects directory
    listing,   \* SpecList: what get_claude_projects returned
    inv        \* SpecConc: the two invocations in flight

vars == <<fs, clock, calls, line, acc, done, root, listing, inv>>

-----------------------------------------------------------------------------
(* Bounds of the model.                                                    *)

MaxItems == 2      \* longest message.content array of SpecLine
MaxLines == 2      \* longest file, in lines
MaxCalls == 2      \* calls of fix_thinking_blocks in one behaviour
MaxClock == 2      \* last clock tick
MaxEntries == 2    \* entries of the projects directory
MaxTime == 2       \* largest modification time of a project directory

-----------------------------------------------------------------------------
(* serde_json::Value.  Every value is a record of one shape; t is the tag, *)
(* s a string's text, n a number, a an array's elements, o an object's     *)
(* members (key/value pairs, keys distinct).                               *)

Null == [t |-> "null", s |-> "", n |-> 0, a |-> <<>>, o |-> <<>>]
Str(x) == [Null EXCEPT !.t = "string", !.s = x]
Num(x) == [Null EXCEPT !.t = "number", !.n = x]
Arr(x) == [Null EXCEPT !.t = "array", !.a = x]
Obj(x) == [Null EXCEPT !.t = "object", !.o = x]
Member(key, val) == [k |-> key, v |-> val]

\* Option<T>: None is <<>>, Some(x) is <<x>>.
None == <<>>
Some(x) == <<x>>

\* Value::get / Value::get_mut with a string index: None unless an object with the key.
get(val, key) ==
    IF val.t = "object" /\ \E i \in 1..Len(val.o) : val.o[i].k = key
    THEN Some(val.o[CHOOSE i \in 1..Len(val.o) : val.o[i].k = key].v)
    ELSE None

\* Value::as_array_mut
as_array_mut(val) == IF val.t = "array" THEN Some(val.a) ELSE None

\* Value::as_str
as_str(val) == IF val.t = "string" THEN Some(val.s) ELSE None

\* An assignment through the &mut reference that get_mut(key) returned.
put(val, key, new) ==
    [val EXCEPT !.o = [i \in 1..Len(val.o) |->
                          IF val.o[i].k = key THEN Member(key, new) ELSE val.o[i]]]

-----------------------------------------------------------------------------
(* Text.  A line of text is what it parses to (kind, v) together with what *)
(* parsing forgets: its formatting (fmt), the width of a blank line (ws),  *)
(* and the number of carriage returns at its end (cr).                     *)

Text(kind, ws, val, fmt) == [kind |-> kind, ws |-> ws, v |-> val, fmt |-> fmt, cr |-> 0]
BlankText(n) == Text("blank", n, Null, "compact")
GarbageText == Text("garbage", 0, Null, "compact")
JsonText(val, fmt) == Text("json", 0, val, fmt)

\* line.trim().is_empty()
is_blank(txt) == txt.kind = "blank"

\* serde_json::from_str::<Value>: Ok(value) for JSON text in any formatting.
from_str(txt) == [ok |-> txt.kind = "json", v |-> txt.v]

\* serde_json::to_string: the compact serialization.
to_string(val) == JsonText(val, "compact")

-----------------------------------------------------------------------------
(* The body of the loop of fix_thinking_blocks.                            *)

ThinkingTypes == {"thinking", "redacted_thinking"}

\* The closure, had it tested for "thinking" alone.
retain_keep_only_thinking(item) ==
    LET ty == get(item, "type") IN
    IF ty # None /\ as_str(ty[1]) # None
    THEN as_str(ty[1])[1] # "thinking"
    ELSE TRUE

\* The closure handed to content_array.retain: TRUE keeps the item.
retain_keep(item) ==
    LET ty == get(item, "type") IN
    IF ty # None /\ as_str(ty[1]) # None
    THEN as_str(ty[1])[1] \notin ThinkingTypes
    ELSE TRUE

\* Vec::retain
retain(arr) == SelectSeq(arr, retain_keep)

\* Lines 158-177: data after the filter, and the number of items removed.
strip_thinking(data) ==
    LET message == get(data, "message") IN
    IF message = None THEN [data |-> data, removed |-> 0] ELSE
    LET content == get(message[1], "content") IN
    IF content = None THEN [data |-> data, removed |-> 0] ELSE
    LET content_array == as_array_mut(content[1]) IN
    IF content_array = None THEN [data |-> data, removed |-> 0] ELSE
    LET original_len == Len(content_array[1])
        kept == retain(content_array[1])
    IN [data |-> put(data, "message", put(message[1], "content", Arr(kept))),
        removed |-> original_len - Len(kept)]

\* The comparison, had it been with the line as read.
original_raw_line(txt, data) == txt

\* Line 155: the string the new serialization is compared with.
original_of(txt, data) == to_string(data)

Acc0 ==
    [processed_lines |-> <<>>, total_lines |-> 0, modified_lines |-> 0,
     thinking_blocks_removed |-> 0, errors |-> 0]

\* The blank arm, had total_lines been counted before the test.
blank_arm_counting(a, txt) ==
    [a EXCEPT !.total_lines = @ + 1, !.processed_lines = Append(@, txt)]

\* Lines 146-149: a blank line.
blank_arm(a, txt) == [a EXCEPT !.processed_lines = Append(@, txt)]

\* The error arm, had it not pushed the line.
err_arm_dropping(a, txt) == [a EXCEPT !.errors = @ + 1]

\* Lines 185-188: a line that does not parse.
err_arm(a, txt) ==
    [a EXCEPT !.errors = @ + 1, !.processed_lines = Append(@, txt)]

\* Lines 154-184: a line that parses.
ok_arm(a, txt, data) ==
    LET original == original_of(txt, data)
        st == strip_thinking(data)
        new_json == to_string(st.data)
    IN [a EXCEPT !.thinking_blocks_removed = @ + st.removed,
                 !.modified_lines = IF new_json # original THEN @ + 1 ELSE @,
                 !.processed_lines = Append(@, new_json)]

\* Lines 145-190: one iteration.
loop_body(a, txt) ==
    IF is_blank(txt) THEN blank_arm(a, txt)
    ELSE LET a1 == [a EXCEPT !.total_lines = @ + 1]
             parsed == from_str(txt)
         IN IF parsed.ok THEN ok_arm(a1, txt, parsed.v) ELSE err_arm(a1, txt)

RECURSIVE process_from(_, _, _)
process_from(lns, i, a) ==
    IF i > Len(lns) THEN a ELSE process_from(lns, i + 1, loop_body(a, lns[i]))

\* Lines 139-190: the whole loop.
process_lines(lns) == process_from(lns, 1, Acc0)

-----------------------------------------------------------------------------
(* The inputs of SpecLine: one line of every shape the loop distinguishes. *)

ThinkingItem == Obj(<<Member("type", Str("thinking")), Member("x", Num(1))>>)
RedactedItem == Obj(<<Member("type", Str("redacted_thinking"))>>)
TextItem == Obj(<<Member("type", Str("text")), Member("x", Num(2))>>)
UntypedItem == Obj(<<Member("x", Num(3))>>)
NumTypedItem == Obj(<<Member("type", Num(7))>>)
BareStringItem == Str("thinking")

Items == {ThinkingItem, RedactedItem, TextItem, UntypedItem, NumTypedItem, BareStringItem}

RECURSIVE SeqsUpTo(_, _)
SeqsUpTo(S, n) ==
    IF n = 0 THEN {<<>>}
    ELSE LET shorter == SeqsUpTo(S, n - 1)
         IN shorter \cup {Append(s, x) : s \in {q \in shorter : Len(q) = n - 1}, x \in S}

WithContent(c) ==
    Obj(<<Member("message", Obj(<<Member("content", c), Member("role", Str("assistant"))>>)),
          Member("uuid", Str("u1"))>>)

RichValues ==
    {WithContent(Arr(items)) : items \in SeqsUpTo(Items, MaxItems)}
    \cup {WithContent(Str("thinking")),
          WithContent(ThinkingItem),
          Obj(<<Member("message", Obj(<<Member("role", Str("user"))>>))>>),
          Obj(<<Member("message", Str("thinking"))>>),
          Obj(<<Member("content", Arr(<<ThinkingItem>>))>>),
          Obj(<<>>),
          Arr(<<ThinkingItem>>),
          Num(7)}

RichLines ==
    {JsonText(val, f) : val \in RichValues, f \in {"compact", "spaced"}}
    \cup {BlankText(0), BlankText(1), GarbageText}

-----------------------------------------------------------------------------
(* File content and file names.  A file's content is the sequence of its   *)
(* segments between "\n" characters (never empty: the empty file is one    *)
(* empty segment); every segment but the last is followed by "\n".  A file *)
(* name is the sequence of its dot-separated components.                   *)

EmptyText == BlankText(0)
EmptyFile == <<EmptyText>>
WithCr(txt) == [txt EXCEPT !.cr = @ + 1]

\* str::lines: split at "\n", drop one "\r" before it; no final empty line.
\* A last line that no "\n" ends keeps its "\r".
lines(content) ==
    LET n == Len(content)
        terminated == [i \in 1..(n - 1) |->
                          [content[i] EXCEPT !.cr = IF @ > 0 THEN @ - 1 ELSE 0]]
    IN IF content[n] = EmptyText THEN terminated ELSE Append(terminated, content[n])

\* processed_lines.join("\n")
join(lns) == IF lns = <<>> THEN EmptyFile ELSE lns

\* Path::extension
extension(name) ==
    IF Len(name) > 1 /\ ~(Len(name) = 2 /\ name[1] = "")
    THEN Some(name[Len(name)]) ELSE None

\* Path::with_extension
with_extension(name, ext) ==
    (IF extension(name) # None THEN SubSeq(name, 1, Len(name) - 1) ELSE name) \o ext

\* chrono::Local::now().format("%Y%m%d_%H%M%S"): one string per second.
Stamps ==
    <<"20250101_000000", "20250101_000001", "20250101_000002", "20250101_000003",
      "20250101_000004", "20250101_000005", "20250101_000006", "20250101_000007">>
format_timestamp(t) == Stamps[t + 1]

\* The path, had the test for an existing backup been left out.
plain_backup_path_always(jsonl_path, exists_plain, t) ==
    with_extension(jsonl_path, <<"jsonl", "bak">>)

\* Lines 193-205: the path the backup is copied to.
backup_path_of(jsonl_path, exists_plain, t) ==
    IF exists_plain
    THEN with_extension(jsonl_path, <<format_timestamp(t), "bak">>)
    ELSE with_extension(jsonl_path, <<"jsonl", "bak">>)

-----------------------------------------------------------------------------
(* The project directory.                                                  *)

FileA == <<"a", "jsonl">>
FileB == <<"b", "jsonl">>
JsonlNames == {FileA, FileB}
BackupNames ==
    {with_extension(f, <<"jsonl", "bak">>) : f \in JsonlNames}
    \cup {with_extension(f, <<format_timestamp(t), "bak">>) : f \in JsonlNames, t \in 0..MaxClock}
Names == JsonlNames \cup BackupNames
NoName == <<>>
NoContent == <<>>

Absent == [exists |-> FALSE, content |-> EmptyFile, mtime |-> 0]
File(content, mtime) == [exists |-> TRUE, content |-> content, mtime |-> mtime]

\* The search, had the sort been ascending.
find_latest_oldest(dir, read_dir_ok, meta_ok) ==
    LET jsonl_files == {f \in DOMAIN dir : /\ read_dir_ok
                                           /\ dir[f].exists
                                           /\ extension(f) = Some("jsonl")
                                           /\ f \in meta_ok}
    IN {f \in jsonl_files : \A g \in jsonl_files : dir[g].mtime >= dir[f].mtime}

\* find_latest_jsonl: the files it may return (more than one only when the
\* latest modification time is shared: the sort is stable and read_dir's
\* order is the operating system's); empty for None.
find_latest_jsonl(dir, read_dir_ok, meta_ok) ==
    LET jsonl_files == {f \in DOMAIN dir : /\ read_dir_ok
                                           /\ dir[f].exists
                                           /\ extension(f) = Some("jsonl")
                                           /\ f \in meta_ok}
    IN {f \in jsonl_files : \A g \in jsonl_files : dir[g].mtime <= dir[f].mtime}

\* fs::copy(from, to) that succeeds: to holds from's content.  The time of the
\* copy is taken for its modification time; no step reads a backup's time.
fs_copy(dir, from, to, t) == [dir EXCEPT ![to] = File(dir[from].content, t)]

\* fs::write(path, content) that succeeds.
fs_write(dir, path, content, t) == [dir EXCEPT ![path] = File(content, t)]

\* A copy or a write that fails: nothing happened, or the destination was
\* created or truncated before the failure.
fs_failed(dir, path, t) == {dir, [dir EXCEPT ![path] = File(EmptyFile, t)]}

-----------------------------------------------------------------------------
(* fix_thinking_blocks as one sequential operation.  Its inputs are the    *)
(* path and what the file system does to this call: fault names the one    *)
(* I/O step that fails, meta_ok the .jsonl files whose metadata is read.   *)

ProjectPaths == {"proj", "missing"}
project_dir_exists(project_path) == project_path = "proj"

Faults == {"none", "read_dir", "read", "copy", "write"}

ErrNoDir == "Project directory not found"
ErrNoJsonl == "No .jsonl files found in project directory"
ErrRead == "Failed to read JSONL file"
ErrBackup == "Failed to create backup"
ErrWrite == "Failed to write JSONL file"

\* The history record of one call: its path, the fault it met ("none" when the
\* call ended before the step that would have failed), what it returned (err = ""
\* for Ok, result for the counters), the file it chose, the content it read and
\* the directory as it was before the call.
Call(project_path, fault, err, target, backup, pre, result, before) ==
    [project_path |-> project_path, fault |-> fault, ok |-> err = "", err |-> err,
     jsonl_path |-> target, backup_path |-> backup,
     content |-> pre, result |-> result, before |-> before, at |-> clock]

Finish(call, dir) ==
    /\ calls' = Append(calls, call)
    /\ fs' = dir

\* The steps, had the file been overwritten before the backup was made.
fix_steps_write_first(project_path, fault, jsonl_path) ==
    LET pre == fs[jsonl_path].content
        result == process_lines(lines(pre))
        plain == with_extension(jsonl_path, <<"jsonl", "bak">>)
        backup == backup_path_of(jsonl_path, fs[plain].exists, clock)
        written == fs_write(fs, jsonl_path, join(result.processed_lines), clock)
    IN IF fault = "copy"
       THEN \E dir \in fs_failed(written, backup, clock) :
               Finish(Call(project_path, fault, ErrBackup, jsonl_path, backup, pre, result, fs), dir)
       ELSE Finish(Call(project_path, fault, "", jsonl_path, backup, pre, result, fs),
                   fs_copy(written, jsonl_path, backup, clock))

\* Lines 134-219, once the file is found.
fix_steps(project_path, fault, jsonl_path) ==
    IF fault = "read"
    THEN Finish(Call(project_path, fault, ErrRead, jsonl_path, NoName, NoContent, Acc0, fs), fs)
    ELSE
    LET pre == fs[jsonl_path].content
        result == process_lines(lines(pre))
        plain == with_extension(jsonl_path, <<"jsonl", "bak">>)
        backup == backup_path_of(jsonl_path, fs[plain].exists, clock)
    IN IF fault = "copy"
       THEN \E dir \in fs_failed(fs, backup, clock) :
               Finish(Call(project_path, fault, ErrBackup, jsonl_path, backup, pre, result, fs), dir)
       ELSE LET copied == fs_copy(fs, jsonl_path, backup, clock) IN
            IF fault = "write"
            THEN \E dir \in fs_failed(copied, jsonl_path, clock) :
                    Finish(Call(project_path, fault, ErrWrite, jsonl_path, backup, pre, result, fs), dir)
            ELSE Finish(Call(project_path, fault, "", jsonl_path, backup, pre, result, fs),
                        fs_write(copied, jsonl_path, join(result.processed_lines), clock))

\* Lines 117-220.
fix_thinking_blocks(project_path, fault, meta_ok) ==
    /\ Len(calls) < MaxCalls
    /\ UNCHANGED <<clock, line, acc, done, root, listing, inv>>
    /\ IF ~project_dir_exists(project_path)
       THEN Finish(Call(project_path, "none", ErrNoDir, NoName, NoName, NoContent, Acc0, fs), fs)
       ELSE LET found == find_latest_jsonl(fs, fault # "read_dir", meta_ok) IN
            IF found = {}
            THEN Finish(Call(project_path, IF fault = "read_dir" THEN fault ELSE "none",
                             ErrNoJsonl, NoName, NoName, NoContent, Acc0, fs), fs)
            ELSE \E jsonl_path \in found : fix_steps(project_path, fault, jsonl_path)

\* Time passes.
Tick ==
    /\ clock < MaxClock
    /\ clock' = clock + 1
    /\ UNCHANGED <<fs, calls, line, acc, done, root, listing, inv>>

-----------------------------------------------------------------------------
(* The files of the specifications.                                        *)

SpecExampleLine ==
    JsonText(Obj(<<Member("message", Obj(<<Member("content", Arr(<<ThinkingItem, TextItem>>))>>))>>),
             "compact")
TwoBlocksLine ==
    JsonText(WithContent(Arr(<<ThinkingItem, UntypedItem, RedactedItem>>)), "spaced")
NoMessageLine == JsonText(Obj(<<Member("uuid", Str("u2"))>>), "spaced")
GarbageCrText == WithCr(GarbageText)

FixLines ==
    {EmptyText, BlankText(1), GarbageText, GarbageCrText,
     SpecExampleLine, TwoBlocksLine, NoMessageLine}

\* The file with the given lines, each ended by "\r\n" or "\n", the last
\* one ended only when final_newline.
file_of(lns, final_newline, crlf) ==
    LET n == Len(lns)
        seg(i) == IF crlf /\ (i < n \/ final_newline) THEN WithCr(lns[i]) ELSE lns[i]
        body == [i \in 1..n |-> seg(i)]
    IN IF final_newline \/ n = 0 THEN Append(body, EmptyText) ELSE body

FileContents ==
    {file_of(lns, nl, crlf) : lns \in SeqsUpTo(FixLines, MaxLines), nl \in BOOLEAN, crlf \in BOOLEAN}
RunContents ==
    {file_of(lns, nl, FALSE) : lns \in SeqsUpTo(FixLines, MaxLines), nl \in BOOLEAN}

OtherContent == file_of(<<SpecExampleLine>>, TRUE, FALSE)
OldBackupContent == file_of(<<NoMessageLine>>, TRUE, FALSE)

IdleLine == EmptyText
IdleRoot == [exists |-> FALSE, readable |-> FALSE, entries |-> <<>>]
IdleListing == [called |-> FALSE, ok |-> FALSE, projects |-> <<>>]
IdleInv == <<>>

InitDir(a, b, old) ==
    [f \in Names |->
        IF f = FileA THEN a
        ELSE IF f = FileB THEN b
        ELSE IF f = with_extension(FileA, <<"jsonl", "bak">>) THEN old
        ELSE Absent]

-----------------------------------------------------------------------------
(* SpecFix: calls on a directory holding one session file of any content,  *)
(* with every I/O fault.                                                   *)

InitFix ==
    /\ clock = 1
    /\ calls = <<>>
    /\ \/ fs = InitDir(Absent, Absent, Absent)
       \/ \E content \in FileContents : fs = InitDir(File(content, 1), Absent, Absent)
    /\ line = IdleLine /\ acc = Acc0 /\ done = FALSE
    /\ root = IdleRoot /\ listing = IdleListing /\ inv = IdleInv

\* A call on the missing directory consults neither fault nor meta_ok: one
\* choice of them stands for all.
NextFix ==
    \/ fix_thinking_blocks("missing", "none", JsonlNames)
    \/ \E fault \in Faults, meta_ok \in {JsonlNames, JsonlNames \ {FileA}} :
          fix_thinking_blocks("proj", fault, meta_ok)

SpecFix == InitFix /\ [][NextFix]_vars

-----------------------------------------------------------------------------
(* SpecRuns: runs that meet no I/O fault, as time passes, on a directory   *)
(* that may hold a second session file and a backup of an earlier day.     *)

InitRuns ==
    /\ clock = 1
    /\ calls = <<>>
    /\ \/ fs = InitDir(Absent, Absent, Absent)
       \/ \E content \in RunContents,
             b \in {Absent, File(OtherContent, 0), File(OtherContent, 1)},
             old \in {Absent, File(OldBackupContent, 0)} :
             fs = InitDir(File(content, 1), b, old)
    /\ line = IdleLine /\ acc = Acc0 /\ done = FALSE
    /\ root = IdleRoot /\ listing = IdleListing /\ inv = IdleInv

NextRuns ==
    \/ \E project_path \in ProjectPaths : fix_thinking_blocks(project_path, "none", JsonlNames)
    \/ Tick

SpecRuns == InitRuns /\ [][NextRuns]_vars

-----------------------------------------------------------------------------
(* SpecLine: one iteration of the loop on one line.                        *)

InitLine ==
    /\ line \in RichLines
    /\ acc = Acc0 /\ done = FALSE
    /\ fs = [f \in Names |-> Absent] /\ clock = 0 /\ calls = <<>>
    /\ root = IdleRoot /\ listing = IdleListing /\ inv = IdleInv

ProcessLine ==
    /\ ~done
    /\ acc' = loop_body(acc, line)
    /\ done' = TRUE
    /\ UNCHANGED <<fs, clock, calls, line, root, listing, inv>>

NextLine == ProcessLine

SpecLine == InitLine /\ [][NextLine]_vars

-----------------------------------------------------------------------------
(* What the claims speak of, stated on the data and not through the code's *)
(* own operators.                                                          *)

\* The values of the members named key of an object (none for a non-object).
Field(val, key) ==
    IF val.t = "object" THEN {val.o[i].v : i \in {j \in 1..Len(val.o) : val.o[j].k = key}} ELSE {}

\* The message.content arrays of a value: one, or none.
ContentArrays(val) ==
    {c.a : c \in {d \in UNION {Field(m, "content") : m \in Field(val, "message")} : d.t = "array"}}

\* A thinking block: an item whose type is the string thinking or redacted_thinking.
IsThinkingBlock(item) ==
    \E ty \in Field(item, "type") : ty.t = "string" /\ ty.s \in {"thinking", "redacted_thinking"}

\* out is arr without its thinking blocks, the others in their order.
IsFiltered(arr, out) ==
    LET keepIdx == {i \in 1..Len(arr) : ~IsThinkingBlock(arr[i])}
        nth(j) == CHOOSE i \in keepIdx : Cardinality({k \in keepIdx : k <= i}) = j
    IN /\ Len(out) = Cardinality(keepIdx)
       /\ \A j \in 1..Len(out) : out[j] = arr[nth(j)]

\* Two objects with the same members in the same order, but for the value of key.
SameExcept(x, y, key) ==
    /\ x.t = y.t /\ x.s = y.s /\ x.n = y.n /\ x.a = y.a
    /\ Len(x.o) = Len(y.o)
    /\ \A i \in 1..Len(x.o) : x.o[i].k = y.o[i].k /\ (x.o[i].k # key => x.o[i].v = y.o[i].v)

\* The thinking blocks of a line of text.
ThinkingBlocksOf(txt) ==
    IF txt.kind # "json" THEN {}
    ELSE {<<arr, i>> \in UNION {{<<a, j>> : j \in 1..Len(a)} : a \in ContentArrays(txt.v)} :
             IsThinkingBlock(arr[i])}

\* Two lines with the same content: the same JSON value, or the same text.
SameContent(x, y) ==
    IF x.kind = "json" /\ y.kind = "json" THEN x.v = y.v ELSE x = y

LastCall == calls[Len(calls)]

-----------------------------------------------------------------------------
\* C2: a line that parses and whose message.content is an array is emitted with
\* that array less its thinking blocks (type the string "thinking" or
\* "redacted_thinking"), the other items in their order and everything else as
\* it was; a line that parses without such an array is emitted as the same value.
C2_FilterExact ==
    (done /\ line.kind = "json") =>
        /\ Len(acc.processed_lines) = 1
        /\ LET emitted == acc.processed_lines[1] IN
           /\ emitted.kind = "json"
           /\ IF ContentArrays(line.v) = {}
              THEN emitted.v = line.v
              ELSE /\ SameExcept(line.v, emitted.v, "message")
                   /\ \A m \in Field(line.v, "message"), em \in Field(emitted.v, "message") :
                         SameExcept(m, em, "content")
                   /\ \A arr \in ContentArrays(line.v) :
                         \E out \in ContentArrays(emitted.v) : IsFiltered(arr, out)

C2_Witness ==
    /\ done
    /\ ContentArrays(line.v) = {<<NumTypedItem, RedactedItem>>}
    /\ ContentArrays(acc.processed_lines[1].v) = {<<NumTypedItem>>}

-----------------------------------------------------------------------------
\* C1 as stated: after a successful run the rewritten file has as many lines as
\* the file had before, and line i differs in content from the old line i only
\* if a thinking block was removed from it.
C1_SameLineCount ==
    (calls # <<>> /\ LastCall.ok) =>
        LET old == lines(LastCall.content)
            new == lines(fs[LastCall.jsonl_path].content)
        IN /\ Len(new) = Len(old)
           /\ \A i \in 1..Len(old) :
                 ~SameContent(new[i], old[i]) => ThinkingBlocksOf(old[i]) # {}

\* C1 amended: after a successful run the file holds the processed lines joined
\* by "\n", as many as the lines that were read and in their order; line i
\* differs in content from the line read only if a thinking block was removed
\* from it; read again, the file has the same number of lines, or one fewer
\* when the last line read was empty.
C1_LinesKept ==
    (calls # <<>> /\ LastCall.ok) =>
        LET old == lines(LastCall.content)
            written == fs[LastCall.jsonl_path].content
            lastEmpty == old # <<>> /\ old[Len(old)] = EmptyText
        IN /\ IF old = <<>> THEN written = EmptyFile ELSE Len(written) = Len(old)
           /\ \A i \in 1..Len(old) :
                 /\ ~SameContent(written[i], old[i]) => ThinkingBlocksOf(old[i]) # {}
           /\ Len(lines(written)) = Len(old) - (IF lastEmpty THEN 1 ELSE 0)

C1_Witness ==
    /\ calls # <<>> /\ LastCall.ok
    /\ LET old == lines(LastCall.content) IN
       /\ Len(old) = 2
       /\ ThinkingBlocksOf(old[1]) # {}
       /\ old[2] = EmptyText
       /\ Len(lines(fs[LastCall.jsonl_path].content)) = 1

-----------------------------------------------------------------------------
\* C3: a call that fails for a missing directory, for want of a .jsonl file or
\* on the read leaves the directory as it was; a call that fails on the backup
\* copy leaves every file but the backup's destination as it was, the target
\* file among them.
C3_ErrorsLeaveTarget ==
    calls # <<>> =>
        /\ LastCall.err \in {ErrNoDir, ErrNoJsonl, ErrRead} => fs = LastCall.before
        /\ LastCall.err = ErrBackup =>
              /\ LastCall.backup_path # LastCall.jsonl_path
              /\ \A f \in Names \ {LastCall.backup_path} : fs[f] = LastCall.before[f]

C3_Witness ==
    /\ calls # <<>>
    /\ LastCall.err = ErrBackup
    /\ \E i \in 1..Len(lines(LastCall.content)) : ThinkingBlocksOf(lines(LastCall.content)[i]) # {}
    /\ fs[LastCall.jsonl_path] = LastCall.before[LastCall.jsonl_path]
    /\ fs[LastCall.backup_path] # LastCall.before[LastCall.backup_path]

-----------------------------------------------------------------------------
\* C6: in every call that read its file, each line that does not parse adds 1 to
\* errors and to total_lines and is emitted as it was at its place, blank lines
\* add to neither and are emitted as they were, every line is processed, and the
\* call succeeds unless an I/O step fails; a successful call has made the backup
\* and overwritten the file with the processed lines.
C6_ParseErrorsTolerated ==
    /\ \A n \in 1..Len(calls) :
          calls[n].content # NoContent =>
             LET old == lines(calls[n].content)
                 r == calls[n].result
             IN /\ Len(r.processed_lines) = Len(old)
                /\ r.errors = Cardinality({i \in 1..Len(old) : old[i].kind = "garbage"})
                /\ r.total_lines = Cardinality({i \in 1..Len(old) : old[i].kind # "blank"})
                /\ \A i \in 1..Len(old) :
                      old[i].kind \in {"garbage", "blank"} => r.processed_lines[i] = old[i]
                /\ calls[n].fault = "none" => calls[n].ok
    /\ (calls # <<>> /\ LastCall.ok) =>
          /\ fs[LastCall.backup_path].exists
          /\ fs[LastCall.backup_path].content = LastCall.content
          /\ fs[LastCall.jsonl_path].exists
          /\ fs[LastCall.jsonl_path].content = join(LastCall.result.processed_lines)

C6_Witness ==
    /\ calls # <<>> /\ LastCall.ok
    /\ lines(LastCall.content) = <<GarbageText, BlankText(1)>>
    /\ LastCall.result.errors = 1 /\ LastCall.result.total_lines = 1
    /\ lines(fs[LastCall.jsonl_path].content) = <<GarbageText, BlankText(1)>>

-----------------------------------------------------------------------------
\* C7: a successful run returns in thinking_blocks_removed the number of
\* thinking blocks in the lines it read and in modified_lines the number of
\* lines that held at least one; the line of one thinking and one text item
\* counts 1 in each.
C7_Counters ==
    \A n \in 1..Len(calls) :
        calls[n].ok =>
           LET old == lines(calls[n].content)
               r == calls[n].result
           IN /\ r.thinking_blocks_removed =
                    Cardinality({<<i, b>> \in UNION {{<<j, c>> : c \in ThinkingBlocksOf(old[j])} :
                                                        j \in 1..Len(old)} : TRUE})
              /\ r.modified_lines =
                    Cardinality({i \in 1..Len(old) : ThinkingBlocksOf(old[i]) # {}})
              /\ old = <<SpecExampleLine>> =>
                    r.thinking_blocks_removed = 1 /\ r.modified_lines = 1

C7_Witness ==
    /\ calls # <<>> /\ LastCall.ok
    /\ lines(LastCall.content) = <<TwoBlocksLine, NoMessageLine>>
    /\ LastCall.result.thinking_blocks_removed = 2
    /\ LastCall.result.modified_lines = 1

-----------------------------------------------------------------------------
PlainBackup(jsonl_path) == with_extension(jsonl_path, <<"jsonl", "bak">>)
StampedBackup(jsonl_path, t) == with_extension(jsonl_path, <<format_timestamp(t), "bak">>)

\* C4: when a run has made the backup <stem>.jsonl.bak, that file keeps the
\* content the target had before that run, and the next run on the same file
\* makes its backup under another name, the one with the timestamp.
C4_FirstBackupKept ==
    /\ \A n \in 1..Len(calls) :
          (calls[n].ok /\ calls[n].backup_path = PlainBackup(calls[n].jsonl_path)) =>
             /\ fs[calls[n].backup_path].exists
             /\ fs[calls[n].backup_path].content = calls[n].content
    /\ \A n \in 2..Len(calls) :
          (/\ calls[n - 1].ok /\ calls[n].ok
           /\ calls[n].jsonl_path = calls[n - 1].jsonl_path
           /\ calls[n - 1].backup_path = PlainBackup(calls[n - 1].jsonl_path)) =>
             /\ calls[n].backup_path = StampedBackup(calls[n].jsonl_path, calls[n].at)
             /\ calls[n].backup_path # calls[n - 1].backup_path
             /\ n = Len(calls) =>
                   /\ fs[calls[n].backup_path].exists
                   /\ fs[calls[n].backup_path].content = calls[n].content

C4_Witness ==
    /\ Len(calls) = 2
    /\ calls[1].ok /\ calls[2].ok
    /\ calls[1].jsonl_path = FileA /\ calls[2].jsonl_path = FileA
    /\ calls[1].backup_path = PlainBackup(FileA)
    /\ calls[1].content # calls[2].content
    /\ fs[PlainBackup(FileA)].content = calls[1].content
    /\ fs[StampedBackup(FileA, calls[2].at)].content = calls[2].content

-----------------------------------------------------------------------------
\* C5: after successful runs on one target file, the file at the backup path
\* each run returned holds the content the target had just before that run.
C5_BackupsKept ==
    (\A n \in 1..Len(calls) : calls[n].ok /\ calls[n].jsonl_path = calls[1].jsonl_path) =>
        \A n \in 1..Len(calls) :
            /\ fs[calls[n].backup_path].exists
            /\ fs[calls[n].backup_path].content = calls[n].content

-----------------------------------------------------------------------------
-----------------------------------------------------------------------------
(* get_claude_projects.  The projects directory is there or not, can be    *)
(* read or not, and holds entries in read_dir's order.  Of an entry: kind  *)
(* is what it is on disk, entry_ok whether read_dir yields it without an   *)
(* error, stat_ok whether fs::metadata succeeds on its path, time_ok       *)
(* whether its modification time can be had as a time since the epoch,     *)
(* mtime that time in milliseconds.                                        *)

EntryNames == <<"p1", "p2", "p3", "p4">>

Entry(i, kind, entry_ok, stat_ok, time_ok, mtime) ==
    [name |-> EntryNames[i], kind |-> kind, entry_ok |-> entry_ok,
     stat_ok |-> stat_ok, time_ok |-> time_ok, mtime |-> mtime]

EntriesAt(i) ==
    {Entry(i, kind, e, st, tm, mt) :
        kind \in {"dir", "file"}, e \in BOOLEAN, st \in BOOLEAN, tm \in BOOLEAN, mt \in 1..MaxTime}

RECURSIVE Listings(_)
Listings(n) ==
    IF n = 0 THEN {<<>>}
    ELSE LET shorter == Listings(n - 1)
         IN shorter \cup {Append(s, e) : s \in {q \in shorter : Len(q) = n - 1}, e \in EntriesAt(n)}

\* Path::is_dir: false when the metadata cannot be read.
is_dir(entry) == entry.stat_ok /\ entry.kind = "dir"

\* Lines 74-79.
last_modified_of(entry) == IF entry.stat_ok /\ entry.time_ok THEN entry.mtime ELSE 0

\* Lines 81-85.
ClaudeProject(entry) ==
    [name |-> entry.name, path |-> <<".claude", "projects", entry.name>>,
     last_modified |-> last_modified_of(entry)]

\* Lines 61-86: the projects pushed, in read_dir's order.
RECURSIVE collect_projects(_, _)
collect_projects(entries, i) ==
    IF i > Len(entries) THEN <<>>
    ELSE LET rest == collect_projects(entries, i + 1) IN
         IF entries[i].entry_ok /\ is_dir(entries[i])
         THEN <<ClaudeProject(entries[i])>> \o rest
         ELSE rest

\* Line 89: the stable sort, latest first.
RECURSIVE sort_by_last_modified(_)
sort_by_last_modified(projects) ==
    IF projects = <<>> THEN <<>>
    ELSE LET n == Len(projects)
             x == projects[n]
             sorted == sort_by_last_modified(SubSeq(projects, 1, n - 1))
             ahead == {i \in 1..Len(sorted) : sorted[i].last_modified >= x.last_modified}
         IN SubSeq(sorted, 1, Cardinality(ahead)) \o <<x>>
               \o SubSeq(sorted, Cardinality(ahead) + 1, Len(sorted))

\* Lines 50-92.
get_claude_projects ==
    /\ ~listing.called
    /\ listing' =
          IF ~root.exists THEN [called |-> TRUE, ok |-> TRUE, projects |-> <<>>]
          ELSE IF ~root.readable THEN [called |-> TRUE, ok |-> FALSE, projects |-> <<>>]
          ELSE [called |-> TRUE, ok |-> TRUE,
                projects |-> sort_by_last_modified(collect_projects(root.entries, 1))]
    /\ UNCHANGED <<fs, clock, calls, line, acc, done, root, inv>>

InitList ==
    /\ \/ root = [exists |-> FALSE, readable |-> FALSE, entries |-> <<>>]
       \/ \E r \in BOOLEAN, entries \in Listings(MaxEntries) :
             root = [exists |-> TRUE, readable |-> r, entries |-> entries]
    /\ listing = IdleListing
    /\ fs = [f \in Names |-> Absent] /\ clock = 0 /\ calls = <<>>
    /\ line = IdleLine /\ acc = Acc0 /\ done = FALSE /\ inv = IdleInv

NextList == get_claude_projects

SpecList == InitList /\ [][NextList]_vars

\* C8: the listing of a missing root is empty and no error; the listing of a
\* root that can be read holds one entry for each subdirectory and none for
\* anything else, an entry whose metadata or time cannot be read has
\* last_modified 0, and the entries are in descending order of last_modified.
C8_Listing ==
    listing.called =>
        /\ ~root.exists => (listing.ok /\ listing.projects = <<>>)
        /\ (root.exists /\ root.readable) =>
              LET yielded == {i \in 1..Len(root.entries) : root.entries[i].entry_ok}
                  got == listing.projects
              IN /\ listing.ok
                 /\ \A i \in yielded :
                       Cardinality({j \in 1..Len(got) : got[j].name = root.entries[i].name})
                          = IF root.entries[i].kind = "dir" THEN 1 ELSE 0
                 /\ \A i \in yielded, j \in 1..Len(got) :
                       (/\ got[j].name = root.entries[i].name
                        /\ ~(root.entries[i].stat_ok /\ root.entries[i].time_ok)) =>
                          got[j].last_modified = 0
                 /\ \A j \in 1..(Len(got) - 1) : got[j].last_modified >= got[j + 1].last_modified

-----------------------------------------------------------------------------
(* SpecConc: two invocations of fix_thinking_blocks on one directory, each *)
(* a sequence of its file-system steps: find and read the file, test       *)
(* whether the backup exists, copy, overwrite.                             *)

Procs == {1, 2}

\* The order, had the overwrite come before the copy.
next_pc_write_first(pc) ==
    CASE pc = "start" -> "check"
      [] pc = "check" -> "write"
      [] pc = "write" -> "copy"
      [] pc = "copy" -> "done"

\* The order of the steps of lines 125-210.
next_pc(pc) ==
    CASE pc = "start" -> "check"
      [] pc = "check" -> "copy"
      [] pc = "copy" -> "write"
      [] pc = "write" -> "done"

Proc0 ==
    [pc |-> "start", jsonl_path |-> NoName, content |-> NoContent, result |-> Acc0,
     backup_path |-> NoName, copied_at |-> 0, wrote_at |-> 0]

\* Lines 125-190: find the file, read it, process its lines.
ConcRead(p) ==
    /\ inv.proc[p].pc = "start"
    /\ \E jsonl_path \in find_latest_jsonl(fs, TRUE, JsonlNames) :
          inv' = [inv EXCEPT !.step = @ + 1,
                             !.proc[p].pc = next_pc("start"),
                             !.proc[p].jsonl_path = jsonl_path,
                             !.proc[p].content = fs[jsonl_path].content,
                             !.proc[p].result = process_lines(lines(fs[jsonl_path].content))]
    /\ UNCHANGED <<fs, clock, calls, line, acc, done, root, listing>>

\* Lines 193-197: backup_path.exists() and the choice of the path.
ConcCheck(p) ==
    /\ inv.proc[p].pc = "check"
    /\ inv' = [inv EXCEPT !.step = @ + 1,
                          !.proc[p].pc = next_pc("check"),
                          !.proc[p].backup_path =
                              backup_path_of(inv.proc[p].jsonl_path,
                                             fs[PlainBackup(inv.proc[p].jsonl_path)].exists, clock)]
    /\ UNCHANGED <<fs, clock, calls, line, acc, done, root, listing>>

\* Lines 198 and 202: fs::copy of the file as it is on disk now.
ConcCopy(p) ==
    /\ inv.proc[p].pc = "copy"
    /\ fs' = fs_copy(fs, inv.proc[p].jsonl_path, inv.proc[p].backup_path, clock)
    /\ inv' = [inv EXCEPT !.step = @ + 1,
                          !.proc[p].pc = next_pc("copy"),
                          !.proc[p].copied_at = inv.step + 1]
    /\ UNCHANGED <<clock, calls, line, acc, done, root, listing>>

\* Lines 208-210: fs::write of the lines processed from what was read.
ConcWrite(p) ==
    /\ inv.proc[p].pc = "write"
    /\ fs' = fs_write(fs, inv.proc[p].jsonl_path, join(inv.proc[p].result.processed_lines), clock)
    /\ inv' = [inv EXCEPT !.step = @ + 1,
                          !.proc[p].pc = next_pc("write"),
                          !.proc[p].wrote_at = inv.step + 1]
    /\ UNCHANGED <<clock, calls, line, acc, done, root, listing>>

InitConc ==
    /\ clock = 1
    /\ \E content \in RunContents, old \in {Absent, File(OldBackupContent, 0)} :
          /\ fs = InitDir(File(content, 1), Absent, old)
          /\ inv = [step |-> 0, original |-> content, proc |-> [p \in Procs |-> Proc0]]
    /\ calls = <<>>
    /\ line = IdleLine /\ acc = Acc0 /\ done = FALSE
    /\ root = IdleRoot /\ listing = IdleListing

NextConc ==
    \/ \E p \in Procs : ConcRead(p)
    \/ \E p \in Procs : ConcCheck(p)
    \/ \E p \in Procs : ConcCopy(p)
    \/ \E p \in Procs : ConcWrite(p)
    \/ Tick

SpecConc == InitConc /\ [][NextConc]_vars

BothDone == \A p \in Procs : inv.proc[p].pc = "done"
OriginalLost == \A f \in BackupNames : ~(fs[f].exists /\ fs[f].content = inv.original)

\* C9: two invocations on one file can end with no backup holding the content
\* the file had before them (the witness), and they end so only when one has
\* taken its copy after the other's overwrite and written it over the other's
\* backup.
C9_LostOnlyByRace ==
    (BothDone /\ OriginalLost) =>
        \E p \in Procs, q \in Procs :
            /\ p # q
            /\ inv.proc[p].backup_path = inv.proc[q].backup_path
            /\ inv.proc[p].copied_at > inv.proc[q].wrote_at
            /\ inv.proc[p].copied_at > inv.proc[q].copied_at

C9_Witness ==
    /\ BothDone
    /\ OriginalLost
    /\ \E i \in 1..Len(lines(inv.original)) : ThinkingBlocksOf(lines(inv.original)[i]) # {}
    /\ inv.proc[1].content = inv.original /\ inv.proc[2].content = inv.original

====
